---- MODULE Spec2Model ----
(***************************************************************************)
(* Model of generate_test_data.py: the event fixture generator.            *)
(*                                                                         *)
(* Floating-point numbers are modelled as a miniature binary floating      *)
(* point: a value is an integer numerator over One = 2^Precision, and      *)
(* every arithmetic result is rounded to Precision significant bits,       *)
(* ties to even, as IEEE-754 doubles are with 53 bits.                     *)
(* Strings are sequences of text pieces (one piece per literal fragment    *)
(* or per digit), so that formatting and parsing are real conversions.     *)
(***************************************************************************)
EXTENDS Integers, Sequences, FiniteSets, TLC

VARIABLES pc, count, i, events, test_data, clock, fs, f, chunks, stdout, status

vars == <<pc, count, i, events, test_data, clock, fs, f, chunks, stdout, status>>

(***************************************************************************)
(* Bounds of the model.                                                    *)
(***************************************************************************)
\* largest count passed to generate_test_events (the script passes 500)
MaxCount == 2
\* significant bits of the miniature floating point (53 in a double)
Precision == 8
\* seconds the wall clock may advance during a run
MaxClock == 1

(***************************************************************************)
(* Small helpers.                                                          *)
(***************************************************************************)
RECURSIVE Pow(_, _)
Pow(b, n) == IF n = 0 THEN 1 ELSE b * Pow(b, n - 1)

SetMin(S) == CHOOSE x \in S : \A y \in S : x <= y
SetMax(S) == CHOOSE x \in S : \A y \in S : x >= y

(***************************************************************************)
(* Floating point.                                                         *)
(***************************************************************************)
One == Pow(2, Precision)

\* the float of an integer literal, e.g. -80
Lit(n) == n * One

\* the float literal 0.5
Half == One \div 2

\* spacing of the representable values at magnitude m >= 0
RECURSIVE Ulp(_)
Ulp(m) == IF m < One THEN 1 ELSE 2 * Ulp(m \div 2)

\* m >= 0 rounded to a multiple of g, ties to the even multiple
RoundHalfEven(m, g) ==
    LET q == m \div g
        r == m % g
    IN  IF 2 * r < g THEN q * g
        ELSE IF 2 * r > g THEN (q + 1) * g
        ELSE IF q % 2 = 0 THEN q * g ELSE (q + 1) * g

\* the representable value nearest to v
Nearest(v) == IF v >= 0 THEN RoundHalfEven(v, Ulp(v)) ELSE -RoundHalfEven(-v, Ulp(-v))

\* the rounding of the exact result x (x is evaluated once, then rounded)
Fl(x) == CHOOSE r \in {Nearest(v) : v \in {x}} : TRUE

FAdd(x, y) == Fl(x + y)
FSub(x, y) == Fl(x - y)
\* x is the float of an integer here, so the exact product is a numerator over One
FMul(x, y) == Fl((x \div One) * y)

(***************************************************************************)
(* The random module: each operator is the set of values a call can        *)
(* return, or the value it returns for one underlying draw.                *)
(***************************************************************************)
\* variant: 1.0 is among the values random() returns
random_random_closed == 0 .. One

\* random.random(): k / 2^Precision for k in 0 .. 2^Precision - 1
random_random == 0 .. (One - 1)

\* random.randint(a, b): both end points included
randint(a, b) == a .. b

\* random.uniform(a, b) for the underlying random() value r
uniform(a, b, r) == FAdd(a, FMul(FSub(b, a), r))

\* random.choice(seq): the positions it may pick
choice(seq) == 1 .. Len(seq)

(***************************************************************************)
(* Text formatting.                                                        *)
(***************************************************************************)
DigitChars == <<"0", "1", "2", "3", "4", "5", "6", "7", "8", "9">>

RECURSIVE Digits(_)
\* decimal digits of n >= 0, most significant first
Digits(n) == IF n < 10 THEN <<DigitChars[n + 1]>>
             ELSE Append(Digits(n \div 10), DigitChars[(n % 10) + 1])

RECURSIVE PadLeft(_, _)
PadLeft(s, width) == IF Len(s) >= width THEN s ELSE PadLeft(<<"0">> \o s, width)

\* variant: the width is ignored
ZeroPad_unpadded(n, width) == Digits(n)

\* format spec 0<width>d for n >= 0
ZeroPad(n, width) == PadLeft(Digits(n), width)

(***************************************************************************)
(* datetime.                                                               *)
(***************************************************************************)
IsLeap(y) == (y % 4 = 0 /\ y % 100 # 0) \/ y % 400 = 0

DaysInMonth(y, m) ==
    IF m = 2 THEN (IF IsLeap(y) THEN 29 ELSE 28)
    ELSE IF m \in {4, 6, 9, 11} THEN 30 ELSE 31

ValueError == [raised |-> "ValueError"]

\* datetime(year, month, day): midnight of that date, or ValueError
datetime(y, m, d) ==
    IF m \in 1..12 /\ d \in 1..DaysInMonth(y, m)
    THEN [year |-> y, month |-> m, day |-> d, hour |-> 0, minute |-> 0, second |-> 0]
    ELSE ValueError

\* datetime.isoformat() of a datetime without microseconds
isoformat(dt) ==
    ZeroPad(dt.year, 4) \o <<"-">> \o ZeroPad(dt.month, 2) \o <<"-">> \o
    ZeroPad(dt.day, 2) \o <<"T">> \o ZeroPad(dt.hour, 2) \o <<":">> \o
    ZeroPad(dt.minute, 2) \o <<":">> \o ZeroPad(dt.second, 2)

\* datetime.now() when the wall clock shows `t` seconds past the start of the run;
\* the clock is read to the second and the run starts at an arbitrary fixed instant
now(t) == [year |-> 2024, month |-> 1, day |-> 1, hour |-> 0, minute |-> 0, second |-> t]

(***************************************************************************)
(* generate_test_events: the lookup lists and one event record.            *)
(***************************************************************************)
\* a Python str made of one literal
Str(s) == <<s>>

\* variant: the severities list is used for the type
types_from_severities ==
    <<Str("low"), Str("medium"), Str("high"), Str("critical")>>

instruments == <<Str("modis"), Str("viirs"), Str("landsat"), Str("sentinel")>>
types == <<Str("fire"), Str("temperature"), Str("precipitation"), Str("vegetation"), Str("ice")>>
severities == <<Str("low"), Str("medium"), Str("high"), Str("critical")>>

\* variant: the day is drawn from 1..31
DayDraws_to31 == randint(1, 31)

\* the values random.randint may give the month and the day
MonthDraws == randint(1, 12)
DayDraws == randint(1, 28)

\* the random() value behind metadata.confidence
ConfidenceDraws == random_random

random_lat(r) == uniform(Lit(-80), Lit(80), r)
random_lng(r) == uniform(Lit(-170), Lit(170), r)
random_temperature(r) == uniform(Lit(20), Lit(70), r)

\* variant: the box is built with the axes exchanged
bounds_swapped(lat, lng) ==
    [north |-> FAdd(lng, Half),
     south |-> FSub(lng, Half),
     east  |-> FAdd(lat, Half),
     west  |-> FSub(lat, Half)]

bounds(lat, lng) ==
    [north |-> FAdd(lat, Half),
     south |-> FSub(lat, Half),
     east  |-> FAdd(lng, Half),
     west  |-> FSub(lng, Half)]

\* the dict appended for index idx, random_date and the draws d at clock time t
EventRecord(idx, random_date, d, t) ==
    LET lat == random_lat(d.lat)
        lng == random_lng(d.lng)
    IN  [id          |-> Str("perf_test_2024_") \o ZeroPad(idx, 3),
         title       |-> Str("Performance Test Event ") \o Digits(idx + 1),
         timestamp   |-> isoformat(random_date) \o Str("Z"),
         type        |-> types[d.type],
         severity    |-> severities[d.severity],
         instrument  |-> instruments[d.instrument],
         coordinates |-> [lat |-> lat, lng |-> lng, bounds |-> bounds(lat, lng)],
         metadata    |-> [confidence      |-> d.confidence,
                          temperature     |-> random_temperature(d.temperature),
                          description     |-> Str("Test event ") \o Digits(idx + 1)
                                                \o Str(" for performance testing"),
                          source          |-> Str("generated"),
                          processing_time |-> isoformat(now(t)) \o Str("Z")]]

(***************************************************************************)
(* Outcomes of the random source in one loop iteration.  Draws is every    *)
(* outcome; the other sets are the parts of it a specification explores.   *)
(***************************************************************************)
Draws ==
    [month: MonthDraws, day: DayDraws, lat: random_random, lng: random_random,
     type: choice(types), severity: choice(severities), instrument: choice(instruments),
     confidence: ConfidenceDraws, temperature: random_random]

\* every draw at its smallest, resp. largest, value
LowDraw ==
    [month |-> SetMin(MonthDraws), day |-> SetMin(DayDraws),
     lat |-> SetMin(random_random), lng |-> SetMin(random_random),
     type |-> SetMin(choice(types)), severity |-> SetMin(choice(severities)),
     instrument |-> SetMin(choice(instruments)),
     confidence |-> SetMin(ConfidenceDraws), temperature |-> SetMin(random_random)]

HighDraw ==
    [month |-> SetMax(MonthDraws), day |-> SetMax(DayDraws),
     lat |-> SetMax(random_random), lng |-> SetMax(random_random),
     type |-> SetMax(choice(types)), severity |-> SetMax(choice(severities)),
     instrument |-> SetMax(choice(instruments)),
     confidence |-> SetMax(ConfidenceDraws), temperature |-> SetMax(random_random)]

\* the draws of the whole-program specification: the two corners and mixtures
SampleDraws ==
    {LowDraw, HighDraw,
     [LowDraw EXCEPT !.month = 2, !.day = HighDraw.day, !.lat = HighDraw.lat,
                     !.type = 2, !.confidence = HighDraw.confidence],
     [HighDraw EXCEPT !.month = 2, !.lat = LowDraw.lat, !.severity = 2,
                      !.instrument = 3, !.temperature = One \div 2]}

\* all dates, everything else at its smallest value
DateDraws ==
    {[LowDraw EXCEPT !.month = m, !.day = dd] : m \in MonthDraws, dd \in DayDraws}

\* all choices of type, severity and instrument
EnumDraws ==
    {[LowDraw EXCEPT !.type = a, !.severity = b, !.instrument = c] :
        a \in choice(types), b \in choice(severities), c \in choice(instruments)}

\* every latitude with the longitude at either end, and the other way round
CoordDraws ==
    {[LowDraw EXCEPT !.lat = a, !.lng = b] :
        a \in random_random, b \in {LowDraw.lng, HighDraw.lng}}
    \cup
    {[LowDraw EXCEPT !.lat = a, !.lng = b] :
        a \in {LowDraw.lat, HighDraw.lat}, b \in random_random}

\* every confidence with the temperature draw at either end, and the other way round
MetaDraws ==
    {[LowDraw EXCEPT !.confidence = a, !.temperature = b] :
        a \in ConfidenceDraws, b \in {LowDraw.temperature, HighDraw.temperature}}
    \cup
    {[LowDraw EXCEPT !.confidence = a, !.temperature = b] :
        a \in {LowDraw.confidence, HighDraw.confidence}, b \in random_random}

(***************************************************************************)
(* json.dump(test_data, f, indent=2): the text is a sequence of pieces.    *)
(***************************************************************************)
Quote == "\""

RECURSIVE Spaces(_)
Spaces(n) == IF n = 0 THEN <<>> ELSE <<" ">> \o Spaces(n - 1)

\* a line break and the indentation of nesting depth `level` (indent=2)
NewLine(level) == <<"\n">> \o Spaces(2 * level)

RECURSIVE StripZeros(_)
\* a digit string without its trailing zeros, one digit at least
StripZeros(s) == IF Len(s) > 1 /\ s[Len(s)] = "0" THEN StripZeros(SubSeq(s, 1, Len(s) - 1)) ELSE s

\* int.__repr__
int_repr(n) == IF n < 0 THEN <<"-">> \o Digits(-n) ELSE Digits(n)

\* variant: at most two digits after the point are kept
float_repr_2f(x) ==
    LET m == IF x < 0 THEN -x ELSE x
    IN  (IF x < 0 THEN <<"-">> ELSE <<>>) \o Digits(m \div One) \o <<".">> \o
        StripZeros(SubSeq(ZeroPad((m % One) * Pow(5, Precision), Precision), 1, 2))

\* float.__repr__: the decimal expansion of x / One, which is finite
float_repr(x) ==
    LET m == IF x < 0 THEN -x ELSE x
    IN  (IF x < 0 THEN <<"-">> ELSE <<>>) \o Digits(m \div One) \o <<".">> \o
        StripZeros(ZeroPad((m % One) * Pow(5, Precision), Precision))

json_str(s) == <<Quote>> \o s \o <<Quote>>

RECURSIVE JoinMembers(_, _, _)
\* "key": value pairs from position k on, one per line at depth `level`
JoinMembers(members, k, level) ==
    IF k > Len(members) THEN <<>>
    ELSE (IF k > 1 THEN <<",">> ELSE <<>>) \o NewLine(level) \o
         json_str(Str(members[k][1])) \o <<":", " ">> \o members[k][2] \o
         JoinMembers(members, k + 1, level)

\* a non-empty dict whose opening brace stands at depth `level`
json_object(members, level) ==
    <<"{">> \o JoinMembers(members, 1, level + 1) \o NewLine(level) \o <<"}">>

json_bounds(b, level) ==
    json_object(<< <<"north", float_repr(b.north)>>, <<"south", float_repr(b.south)>>,
                   <<"east", float_repr(b.east)>>, <<"west", float_repr(b.west)>> >>, level)

json_coordinates(c, level) ==
    json_object(<< <<"lat", float_repr(c.lat)>>, <<"lng", float_repr(c.lng)>>,
                   <<"bounds", json_bounds(c.bounds, level + 1)>> >>, level)

json_metadata(m, level) ==
    json_object(<< <<"confidence", float_repr(m.confidence)>>,
                   <<"temperature", float_repr(m.temperature)>>,
                   <<"description", json_str(m.description)>>,
                   <<"source", json_str(m.source)>>,
                   <<"processing_time", json_str(m.processing_time)>> >>, level)

json_event(e, level) ==
    json_object(<< <<"id", json_str(e.id)>>, <<"title", json_str(e.title)>>,
                   <<"timestamp", json_str(e.timestamp)>>, <<"type", json_str(e.type)>>,
                   <<"severity", json_str(e.severity)>>,
                   <<"instrument", json_str(e.instrument)>>,
                   <<"coordinates", json_coordinates(e.coordinates, level + 1)>>,
                   <<"metadata", json_metadata(e.metadata, level + 1)>> >>, level)

\* the encoder's output comes in chunks: the head of the envelope, one chunk
\* per event, and the closing brackets
ChunkCount(td) == Len(td.events) + 2

Chunk(td, k) ==
    IF k = 1
    THEN <<"{">> \o NewLine(1) \o json_str(Str("schemaVersion")) \o <<":", " ">>
              \o int_repr(td.schemaVersion) \o <<",">> \o NewLine(1)
              \o json_str(Str("year")) \o <<":", " ">> \o int_repr(td.year) \o <<",">>
              \o NewLine(1) \o json_str(Str("events")) \o <<":", " ">> \o <<"[">>
    ELSE IF k = ChunkCount(td)
    THEN (IF Len(td.events) > 0 THEN NewLine(1) ELSE <<>>) \o <<"]">> \o NewLine(0) \o <<"}">>
    ELSE (IF k > 2 THEN <<",">> ELSE <<>>) \o NewLine(2) \o json_event(td.events[k - 1], 2)

RECURSIVE ChunksUpTo(_, _)
\* the first k chunks
ChunksUpTo(td, k) == IF k = 0 THEN <<>> ELSE ChunksUpTo(td, k - 1) \o Chunk(td, k)

\* the whole text json.dump writes
json_dumps(td) == ChunksUpTo(td, ChunkCount(td))

(***************************************************************************)
(* json.load: the parser a consumer of the file runs.                      *)
(***************************************************************************)
IsSpace(t) == t \in {"\n", " "}
NotSpace(t) == ~IsSpace(t)

DigitValue(c) == CHOOSE d \in 0..9 : DigitChars[d + 1] = c
IsDigit(c) == \E d \in 0..9 : DigitChars[d + 1] = c

RECURSIVE DigitsValue(_)
DigitsValue(s) == IF s = <<>> THEN 0
                  ELSE 10 * DigitsValue(SubSeq(s, 1, Len(s) - 1)) + DigitValue(s[Len(s)])

RECURSIVE PadRight(_, _)
PadRight(s, width) == IF Len(s) >= width THEN s ELSE PadRight(s \o <<"0">>, width)

RECURSIVE TakeWhileNumber(_)
\* the longest prefix made of number characters
TakeWhileNumber(toks) ==
    IF toks # <<>> /\ (IsDigit(Head(toks)) \/ Head(toks) \in {"-", "."})
    THEN <<Head(toks)>> \o TakeWhileNumber(Tail(toks))
    ELSE <<>>

RECURSIVE TakeUntilQuote(_)
TakeUntilQuote(toks) ==
    IF toks = <<>> \/ Head(toks) = Quote THEN <<>>
    ELSE <<Head(toks)>> \o TakeUntilQuote(Tail(toks))

\* position of the decimal point in a number text, 0 when it has none
PointAt(txt) == IF \E k \in 1..Len(txt) : txt[k] = "."
                THEN CHOOSE k \in 1..Len(txt) : txt[k] = "." ELSE 0

\* int(text) for a text without a decimal point, float(text) for one with:
\* the representable value nearest to the decimal
parse_number(txt) ==
    LET neg  == txt[1] = "-"
        body == IF neg THEN Tail(txt) ELSE txt
        p    == PointAt(body)
    IN  IF p = 0
        THEN (IF neg THEN -DigitsValue(body) ELSE DigitsValue(body))
        ELSE LET ip   == DigitsValue(SubSeq(body, 1, p - 1))
                 frac == DigitsValue(PadRight(SubSeq(body, p + 1, Len(body)), Precision))
                 den  == Pow(5, Precision)
                 m    == Fl(ip * One + (2 * frac + den) \div (2 * den))
             IN  IF neg THEN -m ELSE m

RECURSIVE parse_value(_), parse_members(_, _), parse_elements(_, _)
\* each returns the value read and the pieces left after it
parse_value(toks) ==
    IF Head(toks) = "{" THEN parse_members(Tail(toks), <<>>)
    ELSE IF Head(toks) = "[" THEN parse_elements(Tail(toks), <<>>)
    ELSE IF Head(toks) = Quote
    THEN LET s == TakeUntilQuote(Tail(toks))
         IN  [v |-> s, rest |-> SubSeq(toks, Len(s) + 3, Len(toks))]
    ELSE LET n == TakeWhileNumber(toks)
         IN  [v |-> parse_number(n), rest |-> SubSeq(toks, Len(n) + 1, Len(toks))]

parse_members(toks, acc) ==
    IF Head(toks) = "}" THEN [v |-> acc, rest |-> Tail(toks)]
    ELSE IF Head(toks) = "," THEN parse_members(Tail(toks), acc)
    ELSE LET key == toks[2]
             val == parse_value(SubSeq(toks, 5, Len(toks)))
         IN  parse_members(val.rest, acc @@ (key :> val.v))

parse_elements(toks, acc) ==
    IF Head(toks) = "]" THEN [v |-> acc, rest |-> Tail(toks)]
    ELSE IF Head(toks) = "," THEN parse_elements(Tail(toks), acc)
    ELSE LET val == parse_value(toks)
         IN  parse_elements(val.rest, Append(acc, val.v))

json_loads(text) == parse_value(SelectSeq(text, NotSpace)).v

(***************************************************************************)
(* State.                                                                  *)
(***************************************************************************)
Unset == [unset |-> TRUE]
NoHandle == [state |-> "none", buffer |-> <<>>]
Running == <<>>

\* the directory ./data and the file events.2024-perf.json before the run
FileSystems ==
    {[dir |-> FALSE, writable |-> FALSE, exists |-> FALSE, content |-> <<>>],
     [dir |-> TRUE, writable |-> TRUE, exists |-> FALSE, content |-> <<>>],
     [dir |-> TRUE, writable |-> TRUE, exists |-> TRUE, content |-> Str("old")],
     [dir |-> TRUE, writable |-> FALSE, exists |-> TRUE, content |-> Str("old")]}

InitWith(counts, filesystems) ==
    /\ pc = "loop"
    /\ count \in counts
    /\ i = 0
    /\ events = <<>>
    /\ test_data = Unset
    /\ clock = 0
    /\ fs \in filesystems
    /\ f = NoHandle
    /\ chunks = 0
    /\ stdout = <<>>
    /\ status = Running

Init == InitWith(0..MaxCount, FileSystems)

\* variant: the exception is swallowed and the process exits with status 0
Raise_swallowed(exc) ==
    /\ pc' = exc
    /\ status' = <<0>>

\* an uncaught exception ends the process with status 1
Raise(exc) ==
    /\ pc' = exc
    /\ status' = <<1>>

(***************************************************************************)
(* generate_test_events(count): one loop iteration, and the return.        *)
(***************************************************************************)
LoopBody(D) ==
    /\ pc = "loop"
    /\ i < count
    /\ \E d \in D, t \in clock .. (IF clock < MaxClock THEN clock + 1 ELSE clock) :
         LET random_date == datetime(2024, d.month, d.day)
         IN  IF random_date = ValueError
             THEN /\ Raise("ValueError")
                  /\ UNCHANGED <<i, events, clock>>
             ELSE /\ events' = Append(events, EventRecord(i, random_date, d, t))
                  /\ i' = i + 1
                  /\ clock' = t
                  /\ UNCHANGED <<pc, status>>
    /\ UNCHANGED <<count, test_data, fs, f, chunks, stdout>>

GenerateEvent == LoopBody(SampleDraws)

\* variant: the loop stops one index early
ReturnEvents_early ==
    /\ pc = "loop"
    /\ i + 1 >= count
    /\ pc' = "returned"
    /\ UNCHANGED <<count, i, events, test_data, clock, fs, f, chunks, stdout, status>>

ReturnEvents ==
    /\ pc = "loop"
    /\ i >= count
    /\ pc' = "returned"
    /\ UNCHANGED <<count, i, events, test_data, clock, fs, f, chunks, stdout, status>>

\* variant: the two fixed fields are exchanged
BuildEnvelope_swapped ==
    /\ pc = "returned"
    /\ test_data' = [schemaVersion |-> 2024, year |-> 1, events |-> events]
    /\ pc' = "open"
    /\ UNCHANGED <<count, i, events, clock, fs, f, chunks, stdout, status>>

BuildEnvelope ==
    /\ pc = "returned"
    /\ test_data' = [schemaVersion |-> 1, year |-> 2024, events |-> events]
    /\ pc' = "open"
    /\ UNCHANGED <<count, i, events, clock, fs, f, chunks, stdout, status>>

(***************************************************************************)
(* with open('./data/events.2024-perf.json', 'w') as f:                    *)
(*     json.dump(test_data, f, indent=2)                                   *)
(* f buffers what is written; the buffer reaches the file when it is       *)
(* flushed, at the latest when the with block closes f.                    *)
(***************************************************************************)
OpenFile ==
    /\ pc = "open"
    /\ fs.dir /\ fs.writable
    /\ fs' = [fs EXCEPT !.exists = TRUE, !.content = <<>>]
    /\ f' = [state |-> "open", buffer |-> <<>>]
    /\ pc' = "dump"
    /\ UNCHANGED <<count, i, events, test_data, clock, chunks, stdout, status>>

OpenFails ==
    /\ pc = "open"
    /\ ~(fs.dir /\ fs.writable)
    /\ Raise(IF fs.dir THEN "PermissionError" ELSE "FileNotFoundError")
    /\ UNCHANGED <<count, i, events, test_data, clock, fs, f, chunks, stdout>>

WriteChunk ==
    /\ pc = "dump"
    /\ chunks < ChunkCount(test_data)
    /\ chunks' = chunks + 1
    /\ LET buffered == f.buffer \o Chunk(test_data, chunks + 1)
       IN  \/ /\ f' = [f EXCEPT !.buffer = buffered]
              /\ fs' = fs
           \/ /\ f' = [f EXCEPT !.buffer = <<>>]
              /\ fs' = [fs EXCEPT !.content = fs.content \o buffered]
    /\ UNCHANGED <<pc, count, i, events, test_data, clock, stdout, status>>

\* a write raises OSError (for example the disk is full); leaving the with
\* block closes f, which may or may not get the buffer to the file
WriteFails ==
    /\ pc = "dump"
    /\ chunks < ChunkCount(test_data)
    /\ \/ fs' = fs
       \/ fs' = [fs EXCEPT !.content = fs.content \o f.buffer]
    /\ f' = [state |-> "closed", buffer |-> <<>>]
    /\ Raise("OSError")
    /\ UNCHANGED <<count, i, events, test_data, clock, chunks, stdout>>

\* the end of the with block: flush and close
CloseFile ==
    /\ pc = "dump"
    /\ chunks = ChunkCount(test_data)
    /\ fs' = [fs EXCEPT !.content = fs.content \o f.buffer]
    /\ f' = [state |-> "closed", buffer |-> <<>>]
    /\ pc' = "print"
    /\ UNCHANGED <<count, i, events, test_data, clock, chunks, stdout, status>>

\* the flush at close raises OSError
CloseFails ==
    /\ pc = "dump"
    /\ chunks = ChunkCount(test_data)
    /\ f.buffer # <<>>
    /\ f' = [state |-> "closed", buffer |-> <<>>]
    /\ Raise("OSError")
    /\ UNCHANGED <<count, i, events, test_data, clock, fs, chunks, stdout>>

\* variant: the line is printed inside the with block, before f is closed
PrintConfirmation_inside ==
    /\ pc = "dump"
    /\ chunks = ChunkCount(test_data)
    /\ stdout' = Append(stdout, Str("Generated 500 test events for performance testing"))
    /\ pc' = "done"
    /\ status' = <<0>>
    /\ UNCHANGED <<count, i, events, test_data, clock, fs, f, chunks>>

PrintConfirmation ==
    /\ pc = "print"
    /\ stdout' = Append(stdout, Str("Generated 500 test events for performance testing"))
    /\ pc' = "done"
    /\ status' = <<0>>
    /\ UNCHANGED <<count, i, events, test_data, clock, fs, f, chunks>>

Next ==
    \/ GenerateEvent
    \/ ReturnEvents
    \/ BuildEnvelope
    \/ OpenFile
    \/ OpenFails
    \/ WriteChunk
    \/ WriteFails
    \/ CloseFile
    \/ CloseFails
    \/ PrintConfirmation

\* the script
Spec == Init /\ [][Next]_vars

(***************************************************************************)
(* generate_test_events on its own, for the parts of the random source     *)
(* the script's specification samples.                                     *)
(***************************************************************************)
\* the largest count for which the indices are followed
MaxIndexCount == 11

OneFileSystem == {[dir |-> TRUE, writable |-> TRUE, exists |-> FALSE, content |-> <<>>]}

GenerateLow == LoopBody({LowDraw})
NextIndex == GenerateLow \/ ReturnEvents
InitIndex == InitWith(0..MaxIndexCount, OneFileSystem)
\* the loop is sequential code: it keeps running until it returns
SpecIndex == InitIndex /\ [][NextIndex]_vars /\ WF_vars(NextIndex)

InitOne == InitWith({1}, OneFileSystem)

GenerateDate == LoopBody(DateDraws)
NextDate == GenerateDate \/ ReturnEvents
SpecDate == InitOne /\ [][NextDate]_vars

GenerateEnum == LoopBody(EnumDraws)
NextEnum == GenerateEnum \/ ReturnEvents
SpecEnum == InitOne /\ [][NextEnum]_vars

GenerateCoord == LoopBody(CoordDraws)
NextCoord == GenerateCoord \/ ReturnEvents
SpecCoord == InitOne /\ [][NextCoord]_vars

GenerateMeta == LoopBody(MetaDraws)
NextMeta == GenerateMeta \/ ReturnEvents
SpecMeta == InitOne /\ [][NextMeta]_vars

(***************************************************************************)
(* Properties.                                                             *)
(***************************************************************************)
Events == 1 .. Len(events)

\* the id expected of index n < 1000, written out digit by digit
ExpectedId(n) ==
    <<"perf_test_2024_", DigitChars[((n \div 100) % 10) + 1],
      DigitChars[((n \div 10) % 10) + 1], DigitChars[(n % 10) + 1]>>

\* the text 2024-MM-DDT00:00:00Z for month m and day d
ExpectedTimestamp(m, d) ==
    <<"2", "0", "2", "4", "-", DigitChars[(m \div 10) + 1], DigitChars[(m % 10) + 1], "-",
      DigitChars[(d \div 10) + 1], DigitChars[(d % 10) + 1],
      "T", "0", "0", ":", "0", "0", ":", "0", "0", "Z">>

\* the days of the months of 2024
Calendar2024 == <<31, 29, 31, 30, 31, 30, 31, 31, 30, 31, 30, 31>>

IsPrefix(s, t) == Len(s) <= Len(t) /\ SubSeq(t, 1, Len(s)) = s

IOFailures == {"FileNotFoundError", "PermissionError", "OSError"}

\* C1: generate_test_events(N) terminates and returns exactly N records: the
\* sequence holds one record per index passed, each iteration appends exactly
\* one record and keeps the ones before it, and the loop returns with N records.
C1_ReturnsExactlyN ==
    /\ [](/\ Len(events) = i
          /\ i <= count
          /\ (pc = "returned" => Len(events) = count))
    /\ [][events' # events =>
            /\ Len(events') = Len(events) + 1
            /\ SubSeq(events', 1, Len(events)) = events]_vars
    /\ <>(pc = "returned")

C1_Witness == pc = "returned" /\ count = MaxIndexCount /\ Len(events) = count

\* C2: the record at position k (0-based) has the id perf_test_2024_ followed
\* by k zero-padded to width 3, and no two records share an id.
C2_IdsByIndexUnique ==
    /\ \A k \in Events : events[k].id = ExpectedId(k - 1)
    /\ \A j, k \in Events : j # k => events[j].id # events[k].id

C2_Witness ==
    /\ pc = "returned"
    /\ Len(events) > 10
    /\ events[11].id = <<"perf_test_2024_", "0", "1", "0">>

\* C3: the envelope has schemaVersion 1 and year 2024 whatever the count and
\* the draws, and its events are the returned sequence in generation order,
\* so their number is the requested count.
C3_Envelope ==
    test_data # Unset =>
        /\ test_data.schemaVersion = 1
        /\ test_data.year = 2024
        /\ test_data.events = events
        /\ Len(test_data.events) = count
        /\ \A k \in 1 .. Len(test_data.events) : test_data.events[k].id = ExpectedId(k - 1)

C3_Witness == test_data # Unset /\ count = MaxCount /\ Len(test_data.events) = MaxCount

\* C4: for every record and every outcome of the choices, type, severity and
\* instrument each lie in their own set of values.
C4_EnumDomains ==
    \A k \in Events :
        /\ events[k].type \in
              {<<"fire">>, <<"temperature">>, <<"precipitation">>, <<"vegetation">>, <<"ice">>}
        /\ events[k].severity \in {<<"low">>, <<"medium">>, <<"high">>, <<"critical">>}
        /\ events[k].instrument \in {<<"modis">>, <<"viirs">>, <<"landsat">>, <<"sentinel">>}

C4_Witness ==
    \E k \in Events :
        /\ events[k].type = <<"ice">>
        /\ events[k].severity = <<"critical">>
        /\ events[k].instrument = <<"sentinel">>

\* C5: lat is in [-80, 80] and lng in [-170, 170]; the four bounds are the
\* floating-point sums and differences of that same lat and lng with 0.5, so
\* they leave the range of the centre by 0.5 at most.
C5_CoordinatesAndBounds ==
    \A k \in Events :
        LET c == events[k].coordinates
        IN  /\ Lit(-80) <= c.lat /\ c.lat <= Lit(80)
            /\ Lit(-170) <= c.lng /\ c.lng <= Lit(170)
            /\ c.bounds.north = FAdd(c.lat, Half)
            /\ c.bounds.south = FSub(c.lat, Half)
            /\ c.bounds.east = FAdd(c.lng, Half)
            /\ c.bounds.west = FSub(c.lng, Half)
            /\ c.bounds.north <= Lit(80) + Half /\ c.bounds.south >= Lit(-80) - Half
            /\ c.bounds.east <= Lit(170) + Half /\ c.bounds.west >= Lit(-170) - Half

\* a box that leaves the latitude range
C5_Witness ==
    \E k \in Events :
        /\ events[k].coordinates.lat = Lit(-80)
        /\ events[k].coordinates.bounds.south = Lit(-80) - Half

\* C6: confidence is in [0, 1), never 1, and temperature is in [20, 70].
C6_ConfidenceAndTemperature ==
    \A k \in Events :
        /\ 0 <= events[k].metadata.confidence
        /\ events[k].metadata.confidence < One
        /\ Lit(20) <= events[k].metadata.temperature
        /\ events[k].metadata.temperature <= Lit(70)

\* the closed end of the temperature range is reached
C6_Witness == \E k \in Events : events[k].metadata.temperature = Lit(70)

\* C7: a failure to open or write the file is fatal: the process has ended
\* with status 1, nothing runs after it (no retry), the confirmation line is
\* not printed, a failed open leaves the directory and the file as they were,
\* and a failed write leaves the part of the text that reached the file.
C7_IOFailureIsFatal ==
    pc \in IOFailures =>
        /\ status = <<1>>
        /\ stdout = <<>>
        /\ ~ENABLED Next
        /\ (pc = "FileNotFoundError" => ~fs.dir /\ ~fs.exists /\ f = NoHandle)
        /\ (pc = "PermissionError" => fs \in FileSystems /\ f = NoHandle)
        /\ (pc = "OSError" =>
               /\ fs.exists
               /\ f.state = "closed"
               /\ IsPrefix(fs.content, json_dumps(test_data))
               /\ fs.content # json_dumps(test_data))

\* a write failed and part of the text is left in the file
C7_Witness == pc = "OSError" /\ fs.exists /\ fs.content # <<>> /\ status = <<1>>

\* C8: after a successful run, parsing the file gives the envelope that was
\* serialized: same schemaVersion, year, events in the same order, same values.
C8_RoundTrip ==
    pc \in {"print", "done"} => json_loads(fs.content) = test_data

C8_Witness ==
    /\ pc = "done"
    /\ Len(test_data.events) = MaxCount
    /\ \E k \in 1 .. Len(test_data.events) :
          test_data.events[k].metadata.confidence = One - 1

\* C9: the phases come in the order generate, open (truncate), write, close,
\* print: the file is untouched until generation has finished, nothing is
\* printed until the file is closed with the whole text in it, and a run that
\* completes has printed exactly one line.
C9_PhaseOrder ==
    /\ pc \in {"loop", "returned", "open"} =>
          fs \in FileSystems /\ f = NoHandle /\ chunks = 0 /\ stdout = <<>>
    /\ pc = "open" => test_data.events = events /\ Len(events) = count
    /\ f.state # "none" => Len(events) = count /\ test_data # Unset
    /\ pc = "dump" =>
          /\ f.state = "open"
          /\ stdout = <<>>
          /\ fs.content \o f.buffer = ChunksUpTo(test_data, chunks)
    /\ pc = "print" =>
          f.state = "closed" /\ fs.content = json_dumps(test_data) /\ stdout = <<>>
    /\ stdout # <<>> =>
          /\ pc = "done"
          /\ stdout = <<Str("Generated 500 test events for performance testing")>>
          /\ f.state = "closed"
          /\ fs.content = json_dumps(test_data)
          /\ status = <<0>>
    /\ pc = "done" => Len(stdout) = 1

\* a completed run
C9_Witness == pc = "done" /\ Len(stdout) = 1 /\ count = MaxCount /\ fs.content # Str("old")

\* C10: every timestamp is the text 2024-MM-DDT00:00:00Z of a month in 1..12
\* and a day in 1..28, which is a date of the calendar, and constructing the
\* date never raises.
C10_DatesValid ==
    /\ pc # "ValueError"
    /\ \A k \in Events :
          \E m \in 1..12, d \in 1..28 :
              /\ d <= Calendar2024[m]
              /\ events[k].timestamp = ExpectedTimestamp(m, d)

\* the last day drawn, in the shortest month
C10_Witness == \E k \in Events : events[k].timestamp = ExpectedTimestamp(2, 28)

====
